---- MODULE Spec2Model ----
(***************************************************************************)
(* The Iter cursor of N1kica/iterators: a position `idx` over a fixed      *)
(* array `val`, and two parallel arrays `higher_order` / `callback` that   *)
(* hold the registered stages.  Two classes are modelled: the current Iter *)
(* (iter.js) and the older Iter at the end of script.js, whose collect()   *)
(* applies the stages itself.                                              *)
(*                                                                         *)
(* JS arrays are 0-based, TLA+ sequences 1-based: JS val[i] is val[i+1].   *)
(***************************************************************************)
EXTENDS Integers, Sequences, FiniteSets, TLC

\* ---------------------------------------------------------------- bounds
MaxLen == 2
MaxStages == 3
MaxOver == 1
MaxCount == 2
MaxLenST == 3
MaxChain == 2

\* ---------------------------------------------------------------- values
\* JS `undefined`: the value of `let next;`, of an out-of-range array read
\* and of a callback that returns nothing.  Elements are numbers.
Undef == 0 - 1

\* The element values arrays are built from: 0 is falsy in JS, 1 is truthy.
Elems == {0, 1}

\* Callbacks a caller may pass.  Map callbacks: inc is x => x + 1, hole is
\* x => (x === 1 ? undefined : x).  Predicates: pos is x => x > 0, even is
\* x => x % 2 === 0 (pos is false on undefined, as in JS; even is never
\* asked about undefined).  Tap callback: log is x => side_effects.push(x).
MapFns == {"inc", "hole"}
Preds == {"pos", "even"}
TapFns == {"log"}

CallMap(fn, v) ==
    IF fn = "inc" THEN v + 1
    ELSE IF v = 1 THEN Undef ELSE v

CallPred(fn, v) ==
    IF v = Undef THEN FALSE
    ELSE IF fn = "pos" THEN v > 0
    ELSE v % 2 = 0

\* All arrays over Elems of length at most n.
RECURSIVE Arrays(_)
Arrays(n) ==
    IF n = 0 THEN {<<>>}
    ELSE LET shorter == Arrays(n - 1)
         IN  shorter \cup {Append(a, e) : a \in {s \in shorter : Len(s) = n - 1}, e \in Elems}

VARIABLES
    cls,            \* which class was instantiated: "iter" or "script"
    val,            \* this.val
    idx,            \* this.idx
    higher_order,   \* this.higher_order (higherOrder in script.js)
    callback,       \* this.callback
    side_effects,   \* what the tap callbacks pushed during the last call
    op,             \* the last method called
    idx0,           \* this.idx when the last call started
    len0,           \* higher_order.length when the last call started
    ret,            \* value returned by the last next/prev/peek/find
    bret,           \* boolean returned by the last some
    collected,      \* array returned by the last collect
    pop,            \* the method called before the last one
    pret,           \* the value that call returned
    sticky,         \* <<i, fn>> for every stage i that some(fn) or find(fn) pushed
    arg             \* the predicate the last every() was given, "-" otherwise

vars == <<cls, val, idx, higher_order, callback, side_effects, op, idx0, len0,
          ret, bret, collected, pop, pret, sticky, arg>>

\* ------------------------------------------------------ the stage functions
_map(fn, v) == CallMap(fn, v)

\* Mutant of _filter: the rejected value is passed on instead of dropped.
_filter_keep(fn, v) == v

_filter(fn, v) == IF CallPred(fn, v) THEN v ELSE Undef

\* Mutant of _tap: the stage forgets `return val`.
_tap_noreturn(fn, v) == Undef

_tap(fn, v) == v

\* this.higher_order[i](this.callback[i], v)
Stage(ho, cb, i, v) ==
    IF ho[i] = "_map" THEN _map(cb[i], v)
    ELSE IF ho[i] = "_filter" THEN _filter(cb[i], v)
    ELSE _tap(cb[i], v)

\* What stage i's callback pushes to side_effects when invoked with v.
Pushed(ho, cb, i, v, log) ==
    IF ho[i] = "_tap" THEN Append(log, <<i, v>>) ELSE log

\* Mutant of Pipe: the loop lacks `&& v !== undefined`, so the stages after a
\* rejecting one still run.
RECURSIVE Pipe_noshort(_, _, _, _, _)
Pipe_noshort(ho, cb, i, v, log) ==
    IF i <= Len(ho)
    THEN Pipe_noshort(ho, cb, i + 1, Stage(ho, cb, i, v), Pushed(ho, cb, i, v, log))
    ELSE [v |-> v, log |-> log]

\* for (let i = 0; i < higher_order.length && v !== undefined; i++)
\*     v = higher_order[i](callback[i], v);
\* `i` is the 1-based index of the stage to run next.
RECURSIVE Pipe(_, _, _, _, _)
Pipe(ho, cb, i, v, log) ==
    IF i <= Len(ho) /\ v # Undef
    THEN Pipe(ho, cb, i + 1, Stage(ho, cb, i, v), Pushed(ho, cb, i, v, log))
    ELSE [v |-> v, log |-> log]

has_next_at(a, i) == i < Len(a)

has_prev_at(i) == i > 0

\* Mutant of NextLoop: `if` in place of `while`, one raw read per call.
NextLoop_once(a, ho, cb, i, cur, log) ==
    IF has_next_at(a, i) /\ cur = Undef
    THEN LET r == Pipe(ho, cb, 1, a[i + 1], log)
         IN  [ret |-> r.v, idx |-> i + 1, log |-> r.log]
    ELSE [ret |-> cur, idx |-> i, log |-> log]

\* while (this.has_next() && next === undefined) { next = val[idx++]; pipe }
RECURSIVE NextLoop(_, _, _, _, _, _)
NextLoop(a, ho, cb, i, cur, log) ==
    IF has_next_at(a, i) /\ cur = Undef
    THEN LET r == Pipe(ho, cb, 1, a[i + 1], log)
         IN  NextLoop(a, ho, cb, i + 1, r.v, r.log)
    ELSE [ret |-> cur, idx |-> i, log |-> log]

\* Mutant of PrevLoop: the element is read before the position is decremented
\* (val[idx--]).
RECURSIVE PrevLoop_post(_, _, _, _, _, _)
PrevLoop_post(a, ho, cb, i, cur, log) ==
    IF has_prev_at(i) /\ cur = Undef
    THEN LET r == Pipe(ho, cb, 1, IF i < Len(a) THEN a[i + 1] ELSE Undef, log)
         IN  PrevLoop_post(a, ho, cb, i - 1, r.v, r.log)
    ELSE [ret |-> cur, idx |-> i, log |-> log]

\* while (this.has_prev() && prev === undefined) { prev = val[idx -= 1]; pipe }
RECURSIVE PrevLoop(_, _, _, _, _, _)
PrevLoop(a, ho, cb, i, cur, log) ==
    IF has_prev_at(i) /\ cur = Undef
    THEN LET r == Pipe(ho, cb, 1, a[i], log)
         IN  PrevLoop(a, ho, cb, i - 1, r.v, r.log)
    ELSE [ret |-> cur, idx |-> i, log |-> log]

\* while (this.has_next()) { t = this.next(); if (t !== undefined) push(t) }
RECURSIVE CollectLoop(_, _, _, _, _, _)
CollectLoop(a, ho, cb, i, out, log) ==
    IF has_next_at(a, i)
    THEN LET r == NextLoop(a, ho, cb, i, Undef, log)
         IN  CollectLoop(a, ho, cb, r.idx,
                         IF r.ret # Undef THEN Append(out, r.ret) ELSE out, r.log)
    ELSE [out |-> out, idx |-> i, log |-> log]

\* script.js collect(): boxed = this.next() is the raw read val[idx++].
RECURSIVE ScriptCollectLoop(_, _, _, _, _)
ScriptCollectLoop(a, ho, cb, i, out) ==
    IF has_next_at(a, i)
    THEN LET r == Pipe(ho, cb, 1, a[i + 1], <<>>)
         IN  ScriptCollectLoop(a, ho, cb, i + 1,
                               IF r.v # Undef THEN Append(out, r.v) ELSE out)
    ELSE [out |-> out, idx |-> i]

has_next == has_next_at(val, idx)

has_prev == has_prev_at(idx)

\* ------------------------------------------------------------------ Init
Init ==
    /\ cls \in {"iter", "script"}
    /\ val \in Arrays(MaxLen)
    /\ idx = 0
    /\ higher_order = <<>>
    /\ callback = <<>>
    /\ side_effects = <<>>
    /\ op = "new"
    /\ idx0 = 0
    /\ len0 = 0
    /\ ret = Undef
    /\ bret = FALSE
    /\ collected = <<>>
    /\ pop = "other"
    /\ pret = Undef
    /\ sticky = {}
    /\ arg = "-"

\* Every call records where it started, and which of the Tracked methods was
\* called just before it (with the value a next() returned).
Tracked == {"next", "reset"}

CalledWith(name, a) ==
    /\ op' = name
    /\ arg' = a
    /\ idx0' = idx
    /\ len0' = Len(higher_order)
    /\ pop' = IF op \in Tracked THEN op ELSE "other"
    /\ pret' = IF op = "next" THEN ret ELSE Undef
    /\ UNCHANGED <<cls, val>>

Called(name) == CalledWith(name, "-")

Push(h, fn) ==
    /\ higher_order' = Append(higher_order, h)
    /\ callback' = Append(callback, fn)

Room == Len(higher_order) < MaxStages

\* ------------------------------------------------------- iter.js methods
\* Mutant of reset: `this.idx = 0` is forgotten.
reset_noidx ==
    /\ cls = "iter"
    /\ Called("reset")
    /\ higher_order' = <<>>
    /\ callback' = <<>>
    /\ side_effects' = <<>>
    /\ ret' = Undef
    /\ bret' = FALSE
    /\ collected' = <<>>
    /\ sticky' = {}
    /\ UNCHANGED idx

reset ==
    /\ cls = "iter"
    /\ Called("reset")
    /\ idx' = 0
    /\ higher_order' = <<>>
    /\ callback' = <<>>
    /\ side_effects' = <<>>
    /\ ret' = Undef
    /\ bret' = FALSE
    /\ collected' = <<>>
    /\ sticky' = {}

\* Mutant of next: `this.val[this.idx++]` without the has_next() test, one
\* raw read per call.
next_unguarded ==
    /\ cls = "iter"
    /\ idx < Len(val) + MaxOver
    /\ Called("next")
    /\ idx' = idx + 1
    /\ LET r == IF idx < Len(val)
                THEN Pipe(higher_order, callback, 1, val[idx + 1], <<>>)
                ELSE [v |-> Undef, log |-> <<>>]
       IN  /\ ret' = r.v
           /\ side_effects' = r.log
    /\ bret' = FALSE
    /\ collected' = <<>>
    /\ UNCHANGED <<higher_order, callback, sticky>>

\* Mutant of next: a call that produces nothing puts the position back.
next_restore ==
    /\ cls = "iter"
    /\ Called("next")
    /\ LET r == NextLoop(val, higher_order, callback, idx, Undef, <<>>)
       IN  /\ idx' = IF r.ret = Undef THEN idx ELSE r.idx
           /\ ret' = r.ret
           /\ side_effects' = r.log
    /\ bret' = FALSE
    /\ collected' = <<>>
    /\ UNCHANGED <<higher_order, callback, sticky>>

next ==
    /\ cls = "iter"
    /\ Called("next")
    /\ LET r == NextLoop(val, higher_order, callback, idx, Undef, <<>>)
       IN  /\ idx' = r.idx
           /\ ret' = r.ret
           /\ side_effects' = r.log
    /\ bret' = FALSE
    /\ collected' = <<>>
    /\ UNCHANGED <<higher_order, callback, sticky>>

\* Mutant of prev: the element read is returned as it is, the stages are not
\* applied.
prev_raw ==
    /\ cls = "iter"
    /\ idx > 0
    /\ Called("prev")
    /\ idx' = idx - 1
    /\ ret' = val[idx]
    /\ side_effects' = <<>>
    /\ bret' = FALSE
    /\ collected' = <<>>
    /\ UNCHANGED <<higher_order, callback, sticky>>

prev ==
    /\ cls = "iter"
    /\ Called("prev")
    /\ LET r == PrevLoop(val, higher_order, callback, idx, Undef, <<>>)
       IN  /\ idx' = r.idx
           /\ ret' = r.ret
           /\ side_effects' = r.log
    /\ bret' = FALSE
    /\ collected' = <<>>
    /\ UNCHANGED <<higher_order, callback, sticky>>

\* return this.val[this.idx + 1]
peek ==
    /\ cls = "iter"
    /\ Called("peek")
    /\ ret' = IF idx + 2 <= Len(val) THEN val[idx + 2] ELSE Undef
    /\ side_effects' = <<>>
    /\ bret' = FALSE
    /\ collected' = <<>>
    /\ UNCHANGED <<idx, higher_order, callback, sticky>>

\* Mutant of Register: the stage is put in front (unshift) instead of pushed.
Register_front(name, h, fn) ==
    /\ Room
    /\ Called(name)
    /\ higher_order' = <<h>> \o higher_order
    /\ callback' = <<fn>> \o callback
    /\ side_effects' = <<>>
    /\ ret' = Undef
    /\ bret' = FALSE
    /\ collected' = <<>>
    /\ UNCHANGED <<idx, sticky>>

Register(name, h, fn) ==
    /\ Room
    /\ Called(name)
    /\ Push(h, fn)
    /\ side_effects' = <<>>
    /\ ret' = Undef
    /\ bret' = FALSE
    /\ collected' = <<>>
    /\ UNCHANGED <<idx, sticky>>

map ==
    /\ cls = "iter"
    /\ \E fn \in MapFns : Register("map", "_map", fn)

filter ==
    /\ cls = "iter"
    /\ \E fn \in Preds : Register("filter", "_filter", fn)

tap ==
    /\ cls = "iter"
    /\ \E fn \in TapFns : Register("tap", "_tap", fn)

\* JS truthiness of a number or undefined: !!v
Truthy(v) == v # Undef /\ v # 0

\* Mutant of some: the stage is one-shot, removed again after the next().
some_oneshot ==
    /\ cls = "iter"
    /\ Room
    /\ Called("some")
    /\ \E fn \in Preds :
         /\ LET r == NextLoop(val, Append(higher_order, "_filter"),
                              Append(callback, fn), idx, Undef, <<>>)
            IN  /\ idx' = r.idx
                /\ ret' = r.ret
                /\ bret' = Truthy(r.ret)
                /\ side_effects' = r.log
         /\ sticky' = sticky \cup {<<Len(higher_order) + 1, fn>>}
    /\ collected' = <<>>
    /\ UNCHANGED <<higher_order, callback>>

some ==
    /\ cls = "iter"
    /\ Room
    /\ Called("some")
    /\ \E fn \in Preds :
         /\ Push("_filter", fn)
         /\ LET r == NextLoop(val, Append(higher_order, "_filter"),
                              Append(callback, fn), idx, Undef, <<>>)
            IN  /\ idx' = r.idx
                /\ ret' = r.ret
                /\ bret' = Truthy(r.ret)
                /\ side_effects' = r.log
         /\ sticky' = sticky \cup {<<Len(higher_order) + 1, fn>>}
    /\ collected' = <<>>

\* Mutant of find: next() is called before the stage is pushed.
find_late ==
    /\ cls = "iter"
    /\ Room
    /\ Called("find")
    /\ \E fn \in Preds :
         /\ Push("_filter", fn)
         /\ LET r == NextLoop(val, higher_order, callback, idx, Undef, <<>>)
            IN  /\ idx' = r.idx
                /\ ret' = r.ret
                /\ side_effects' = r.log
         /\ sticky' = sticky \cup {<<Len(higher_order) + 1, fn>>}
    /\ bret' = FALSE
    /\ collected' = <<>>

find ==
    /\ cls = "iter"
    /\ Room
    /\ Called("find")
    /\ \E fn \in Preds :
         /\ Push("_filter", fn)
         /\ LET r == NextLoop(val, Append(higher_order, "_filter"),
                              Append(callback, fn), idx, Undef, <<>>)
            IN  /\ idx' = r.idx
                /\ ret' = r.ret
                /\ side_effects' = r.log
         /\ sticky' = sticky \cup {<<Len(higher_order) + 1, fn>>}
    /\ bret' = FALSE
    /\ collected' = <<>>

\* Mutant of collect: the cursor is rewound once everything is collected.
collect_rewind ==
    /\ cls = "iter"
    /\ Called("collect")
    /\ LET r == CollectLoop(val, higher_order, callback, idx, <<>>, <<>>)
       IN  /\ idx' = 0
           /\ collected' = r.out
           /\ side_effects' = r.log
    /\ ret' = Undef
    /\ bret' = FALSE
    /\ UNCHANGED <<higher_order, callback, sticky>>

collect ==
    /\ cls = "iter"
    /\ Called("collect")
    /\ LET r == CollectLoop(val, higher_order, callback, idx, <<>>, <<>>)
       IN  /\ idx' = r.idx
           /\ collected' = r.out
           /\ side_effects' = r.log
    /\ ret' = Undef
    /\ bret' = FALSE
    /\ UNCHANGED <<higher_order, callback, sticky>>

\* ----------------------------------------------------- script.js methods
\* next() { return this.val[this.idx++]; }  -- no bound check: idx runs past
\* the end; the model stops it MaxOver past the length.
script_next ==
    /\ cls = "script"
    /\ idx < Len(val) + MaxOver
    /\ Called("next")
    /\ ret' = IF idx < Len(val) THEN val[idx + 1] ELSE Undef
    /\ idx' = idx + 1
    /\ side_effects' = <<>>
    /\ bret' = FALSE
    /\ collected' = <<>>
    /\ UNCHANGED <<higher_order, callback, sticky>>

script_map ==
    /\ cls = "script"
    /\ \E fn \in MapFns : Register("map", "_map", fn)

script_filter ==
    /\ cls = "script"
    /\ \E fn \in Preds : Register("filter", "_filter", fn)

script_collect ==
    /\ cls = "script"
    /\ Called("collect")
    /\ LET r == ScriptCollectLoop(val, higher_order, callback, idx, <<>>)
       IN  /\ idx' = r.idx
           /\ collected' = r.out
    /\ side_effects' = <<>>
    /\ ret' = Undef
    /\ bret' = FALSE
    /\ UNCHANGED <<higher_order, callback, sticky>>

Next ==
    \/ reset
    \/ next
    \/ prev
    \/ peek
    \/ map
    \/ filter
    \/ tap
    \/ some
    \/ find
    \/ collect
    \/ script_next
    \/ script_map
    \/ script_filter
    \/ script_collect

Spec == Init /\ [][Next]_vars

\* ------------------------------------------- skip, take and every (iter.js)
\* The tests call skip(n), take(n) and every(fn).  A skip or take stage is a
\* closure over its quota n and the number of elements it has seen; the
\* closure is what callback[i] holds, as [n |-> quota, seen |-> count].  seen
\* stops counting at n, where the stage's answer no longer changes.
Counter(n) == [n |-> n, seen |-> 0]

\* What stage i makes of v, and the closure it leaves in callback[i].
StStage(ho, cb, i, v) ==
    IF ho[i] = "_skip"
    THEN IF cb[i].seen < cb[i].n
         THEN [v |-> Undef, c |-> [cb[i] EXCEPT !.seen = @ + 1]]
         ELSE [v |-> v, c |-> cb[i]]
    ELSE IF ho[i] = "_take"
    THEN IF cb[i].seen < cb[i].n
         THEN [v |-> v, c |-> [cb[i] EXCEPT !.seen = @ + 1]]
         ELSE [v |-> Undef, c |-> cb[i]]
    ELSE [v |-> Stage(ho, cb, i, v), c |-> cb[i]]

\* The stage loop of next(), with the closures' state carried along.
RECURSIVE StPipe(_, _, _, _, _)
StPipe(ho, cb, i, v, log) ==
    IF i <= Len(ho) /\ v # Undef
    THEN LET s == StStage(ho, cb, i, v)
         IN  StPipe(ho, [cb EXCEPT ![i] = s.c], i + 1, s.v, Pushed(ho, cb, i, v, log))
    ELSE [v |-> v, cb |-> cb, log |-> log]

\* Mutant of StNextLoop: `if` in place of `while`, one raw read per call.
StNextLoop_once(a, ho, cb, i, cur, log) ==
    IF has_next_at(a, i) /\ cur = Undef
    THEN LET r == StPipe(ho, cb, 1, a[i + 1], log)
         IN  [ret |-> r.v, idx |-> i + 1, cb |-> r.cb, log |-> r.log]
    ELSE [ret |-> cur, idx |-> i, cb |-> cb, log |-> log]

\* next(): while (this.has_next() && next === undefined) { ... }
RECURSIVE StNextLoop(_, _, _, _, _, _)
StNextLoop(a, ho, cb, i, cur, log) ==
    IF has_next_at(a, i) /\ cur = Undef
    THEN LET r == StPipe(ho, cb, 1, a[i + 1], log)
         IN  StNextLoop(a, ho, r.cb, i + 1, r.v, r.log)
    ELSE [ret |-> cur, idx |-> i, cb |-> cb, log |-> log]

\* Mutant of StCollectLoop: every result is pushed, `undefined` included.
RECURSIVE StCollectLoop_all(_, _, _, _, _, _)
StCollectLoop_all(a, ho, cb, i, out, log) ==
    IF has_next_at(a, i)
    THEN LET r == StNextLoop(a, ho, cb, i, Undef, log)
         IN  StCollectLoop_all(a, ho, r.cb, r.idx, Append(out, r.ret), r.log)
    ELSE [out |-> out, idx |-> i, cb |-> cb, log |-> log]

\* collect(): while (this.has_next()) { t = this.next(); ... }
RECURSIVE StCollectLoop(_, _, _, _, _, _)
StCollectLoop(a, ho, cb, i, out, log) ==
    IF has_next_at(a, i)
    THEN LET r == StNextLoop(a, ho, cb, i, Undef, log)
         IN  StCollectLoop(a, ho, r.cb, r.idx,
                           IF r.ret # Undef THEN Append(out, r.ret) ELSE out, r.log)
    ELSE [out |-> out, idx |-> i, cb |-> cb, log |-> log]

\* every(fn): next() is called while has_next(); the first produced value
\* that fails fn ends the loop with false.
RECURSIVE EveryLoop(_, _, _, _, _, _)
EveryLoop(a, ho, cb, i, fn, log) ==
    IF has_next_at(a, i)
    THEN LET r == StNextLoop(a, ho, cb, i, Undef, log)
         IN  IF r.ret # Undef /\ ~CallPred(fn, r.ret)
             THEN [ok |-> FALSE, idx |-> r.idx, cb |-> r.cb, log |-> r.log]
             ELSE EveryLoop(a, ho, r.cb, r.idx, fn, r.log)
    ELSE [ok |-> TRUE, idx |-> i, cb |-> cb, log |-> log]

InitST ==
    /\ cls = "iter"
    /\ val \in Arrays(MaxLenST)
    /\ idx = 0
    /\ higher_order = <<>>
    /\ callback = <<>>
    /\ side_effects = <<>>
    /\ op = "new"
    /\ idx0 = 0
    /\ len0 = 0
    /\ ret = Undef
    /\ bret = FALSE
    /\ collected = <<>>
    /\ pop = "other"
    /\ pret = Undef
    /\ sticky = {}
    /\ arg = "-"

ChainRoom == Len(higher_order) < MaxChain

skip ==
    /\ cls = "iter"
    /\ ChainRoom
    /\ \E n \in 0..MaxCount : Register("skip", "_skip", Counter(n))

take ==
    /\ cls = "iter"
    /\ ChainRoom
    /\ \E n \in 0..MaxCount : Register("take", "_take", Counter(n))

st_next ==
    /\ cls = "iter"
    /\ Called("next")
    /\ LET r == StNextLoop(val, higher_order, callback, idx, Undef, <<>>)
       IN  /\ idx' = r.idx
           /\ ret' = r.ret
           /\ callback' = r.cb
           /\ side_effects' = r.log
    /\ bret' = FALSE
    /\ collected' = <<>>
    /\ UNCHANGED <<higher_order, sticky>>

st_some ==
    /\ cls = "iter"
    /\ ChainRoom
    /\ Called("some")
    /\ \E fn \in Preds :
         /\ higher_order' = Append(higher_order, "_filter")
         /\ LET r == StNextLoop(val, Append(higher_order, "_filter"),
                                Append(callback, fn), idx, Undef, <<>>)
            IN  /\ idx' = r.idx
                /\ ret' = r.ret
                /\ bret' = Truthy(r.ret)
                /\ callback' = r.cb
                /\ side_effects' = r.log
    /\ collected' = <<>>
    /\ UNCHANGED sticky

st_collect ==
    /\ cls = "iter"
    /\ Called("collect")
    /\ LET r == StCollectLoop(val, higher_order, callback, idx, <<>>, <<>>)
       IN  /\ idx' = r.idx
           /\ collected' = r.out
           /\ callback' = r.cb
           /\ side_effects' = r.log
    /\ ret' = Undef
    /\ bret' = FALSE
    /\ UNCHANGED <<higher_order, sticky>>

\* Mutant of every: fn is left behind as a filter stage, as some() does.
every_sticks ==
    /\ cls = "iter"
    /\ ChainRoom
    /\ \E fn \in Preds :
         /\ CalledWith("every", fn)
         /\ higher_order' = Append(higher_order, "_filter")
         /\ LET r == EveryLoop(val, higher_order, callback, idx, fn, <<>>)
            IN  /\ idx' = r.idx
                /\ bret' = r.ok
                /\ callback' = Append(r.cb, fn)
                /\ side_effects' = r.log
    /\ ret' = Undef
    /\ collected' = <<>>
    /\ UNCHANGED sticky

every ==
    /\ cls = "iter"
    /\ \E fn \in Preds :
         /\ CalledWith("every", fn)
         /\ LET r == EveryLoop(val, higher_order, callback, idx, fn, <<>>)
            IN  /\ idx' = r.idx
                /\ bret' = r.ok
                /\ callback' = r.cb
                /\ side_effects' = r.log
    /\ ret' = Undef
    /\ collected' = <<>>
    /\ UNCHANGED <<higher_order, sticky>>

NextST ==
    \/ reset
    \/ skip
    \/ take
    \/ st_next
    \/ st_some
    \/ st_collect
    \/ every

SpecST == InitST /\ [][NextST]_vars

\* ------------------------------------------------------------ the claims
\* What the claims compare the code's results with.
MapSeq(fn, a) == [i \in 1..Len(a) |-> CallMap(fn, a[i])]

FilterSeq(fn, a) == SelectSeq(a, LAMBDA x : CallPred(fn, x))

\* The last call was collect() on a cursor at position 0 holding exactly the
\* stages `kinds`.
CollectedFresh(kinds) ==
    /\ op = "collect"
    /\ idx0 = 0
    /\ higher_order = kinds

\* C1: map(f) then collect() on a fresh cursor returns f applied to every
\* element of the collection, in order, one result per element.
C1_MapCollect ==
    (cls = "iter" /\ CollectedFresh(<<"_map">>))
        => collected = MapSeq(callback[1], val)

\* C2: filter(p) then collect() on a fresh cursor returns exactly the elements
\* for which p holds, in order and unchanged.
C2_FilterCollect ==
    (cls = "iter" /\ CollectedFresh(<<"_filter">>))
        => collected = FilterSeq(callback[1], val)

C2_Witness ==
    /\ cls = "iter"
    /\ CollectedFresh(<<"_filter">>)
    /\ Len(val) = 2
    /\ Len(collected) = 1

\* C3: map(f).filter(p).map(g) then collect() on a fresh cursor returns g(f(x))
\* for exactly the elements x whose f(x) satisfies p, in order; for the
\* current Iter and for the older Iter of script.js alike.
C3_MapFilterMap ==
    CollectedFresh(<<"_map", "_filter", "_map">>)
        => collected = MapSeq(callback[3], FilterSeq(callback[2], MapSeq(callback[1], val)))

\* Position after n next() calls from position i with the stages registered.
RECURSIVE AfterNexts(_, _)
AfterNexts(n, i) ==
    IF n = 0 THEN i
    ELSE AfterNexts(n - 1, NextLoop(val, higher_order, callback, i, Undef, <<>>).idx)

\* C4: a next() call made while has_next() is true moves the position forward
\* and never past the length, so Len(val) calls from position 0 leave
\* has_next() false; a next() call made when has_next() is false returns no
\* value and leaves has_next() false.
C4_Exhausts ==
    cls = "iter" =>
        /\ (op = "next" /\ idx0 < Len(val)) => (idx > idx0 /\ idx <= Len(val))
        /\ (op = "next" /\ idx0 >= Len(val)) => (ret = Undef /\ ~has_next)
        /\ idx = 0 =>
              LET end == AfterNexts(Len(val), 0)
              IN  /\ ~has_next_at(val, end)
                  /\ NextLoop(val, higher_order, callback, end, Undef, <<>>).ret = Undef

C4_Witness ==
    /\ cls = "iter"
    /\ op = "next"
    /\ pop = "next"
    /\ Len(val) = 2
    /\ idx0 = Len(val)
    /\ len0 > 0
    /\ ret = Undef

\* C5 as stated: with no stage registered, prev() right after next() returns
\* what that next() returned, from any starting position.
C5_NextPrev ==
    (cls = "iter" /\ op = "prev" /\ pop = "next" /\ len0 = 0) => ret = pret

\* C5 amended: with no stage registered, when next() returned an element
\* (has_next() was true before it), prev() right after it returns that same
\* raw element and puts the position back on it.
C5_NextPrevInRange ==
    (cls = "iter" /\ op = "prev" /\ pop = "next" /\ len0 = 0 /\ pret # Undef)
        => (ret = pret /\ ret = val[idx0] /\ idx = idx0 - 1)

C5_Witness ==
    /\ cls = "iter"
    /\ op = "prev"
    /\ pop = "next"
    /\ len0 = 0
    /\ idx0 = 2
    /\ pret # Undef
    /\ ret = pret

\* C6: after reset(), has_prev() is false, has_next() is true for a non-empty
\* collection and no stage is registered; a next() called right after it
\* returns the first raw element.
C6_Reset ==
    cls = "iter" =>
        /\ op = "reset" =>
              /\ ~has_prev
              /\ (Len(val) > 0 => has_next)
              /\ higher_order = <<>>
              /\ callback = <<>>
        /\ (op = "next" /\ pop = "reset" /\ Len(val) > 0) => ret = val[1]

C6_Witness ==
    /\ cls = "iter"
    /\ op = "reset"
    /\ idx0 > 0
    /\ len0 > 1
    /\ Len(val) > 0
    /\ ~has_prev
    /\ has_next

\* C7: some(fn) returns true exactly when its next() produced a value.
C7_SomeIffValue ==
    (cls = "iter" /\ op = "some") => (bret <=> ret # Undef)

\* The value a raw element x has when it reaches stage i (Undef when an
\* earlier stage dropped it).
ValueAt(i, x) ==
    Pipe(SubSeq(higher_order, 1, i - 1), SubSeq(callback, 1, i - 1), 1, x, <<>>).v

Least(S) == CHOOSE j \in S : \A k \in S : j <= k

\* C8: find(fn) returns the first value, from the starting position onward,
\* that passes the stages registered before and then satisfies fn, and leaves
\* the position just past its raw element; when there is none it returns no
\* value and leaves the position at the length.
C8_Find ==
    (cls = "iter" /\ op = "find") =>
        LET n == Len(higher_order)
            Hits == {j \in (idx0 + 1)..Len(val) :
                        CallPred(callback[n], ValueAt(n, val[j]))}
        IN  /\ n = len0 + 1
            /\ higher_order[n] = "_filter"
            /\ IF Hits = {}
               THEN ret = Undef /\ idx = Len(val)
               ELSE ret = ValueAt(n, val[Least(Hits)]) /\ idx = Least(Hits)

C8_Witness ==
    /\ cls = "iter"
    /\ op = "find"
    /\ len0 > 0
    /\ higher_order[1] = "_map"
    /\ ret # Undef
    /\ idx = idx0 + 2

\* The values the last call handed to its caller.
Produced ==
    IF op \in {"next", "prev", "find", "some"}
    THEN IF ret # Undef THEN {ret} ELSE {}
    ELSE {collected[k] : k \in 1..Len(collected)}

\* C9 as stated: every value produced after some(p) or find(p), until
\* reset(), satisfies p.
C9_StickySatisfied ==
    cls = "iter" => \A s \in sticky : \A v \in Produced : CallPred(s[2], v)

NoMapAfter(i) == \A k \in (i + 1)..Len(higher_order) : higher_order[k] # "_map"

\* C9 amended: the stage some(p) or find(p) pushed stays registered until
\* reset(); every value produced since satisfied p when it reached that
\* stage, and the value handed out satisfies p itself when no map stage was
\* registered after p (so find(p) then find(q) gives an element satisfying
\* both, and a second some(p) succeeds only on a later element).
C9_StickyStays ==
    cls = "iter" => \A s \in sticky :
        /\ s[1] <= Len(higher_order)
        /\ higher_order[s[1]] = "_filter"
        /\ callback[s[1]] = s[2]
        /\ NoMapAfter(s[1]) => \A v \in Produced : CallPred(s[2], v)
        /\ (op \in {"next", "find", "some"} /\ ret # Undef)
              => (idx > idx0 /\ CallPred(s[2], ValueAt(s[1], val[idx])))
        /\ (op = "prev" /\ ret # Undef)
              => (idx < idx0 /\ CallPred(s[2], ValueAt(s[1], val[idx + 1])))

C9_Witness ==
    /\ cls = "iter"
    /\ op = "find"
    /\ idx0 > 0
    /\ ret # Undef
    /\ \E s \in sticky, t \in sticky :
         s[1] = len0 /\ t[1] = len0 + 1 /\ s[2] # t[2]

\* A stage array without its stage i.
Drop(a, i) == SubSeq(a, 1, i - 1) \o SubSeq(a, i + 1, Len(a))

\* What the tap at stage i pushed during the last call, in order.
TapLog(i) ==
    LET e == SelectSeq(side_effects, LAMBDA x : x[1] = i)
    IN  [k \in 1..Len(e) |-> e[k][2]]

\* The values of the raw elements j, j+1, ... that reach stage i, in order.
RECURSIVE Reaching(_, _)
Reaching(i, j) ==
    IF j > Len(val) THEN <<>>
    ELSE (IF ValueAt(i, val[j]) # Undef THEN <<ValueAt(i, val[j])>> ELSE <<>>)
             \o Reaching(i, j + 1)

\* C10: a tap stage anywhere in the chain leaves collect()'s output what it is
\* for the chain without the tap, and its callback is invoked once per
\* element reaching that stage, in traversal order, with the value there.
C10_Tap ==
    (cls = "iter" /\ op = "collect") =>
        \A i \in 1..Len(higher_order) : higher_order[i] = "_tap" =>
            /\ collected = CollectLoop(val, Drop(higher_order, i), Drop(callback, i),
                                       idx0, <<>>, <<>>).out
            /\ TapLog(i) = Reaching(i, idx0 + 1)

C10_Witness ==
    /\ cls = "iter"
    /\ op = "collect"
    /\ Len(val) = 2
    /\ idx0 = 0
    /\ Len(higher_order) = 3
    /\ higher_order[2] = "_tap"
    /\ Len(TapLog(2)) = 1
    /\ Len(collected) = 1

\* C14: peek() returns the raw element the next raw read of next() would
\* consume, no value exactly when has_next() is false, and changes neither the
\* position nor the stages.
C14_Peek ==
    (cls = "iter" /\ op = "peek") =>
        /\ ret = (IF idx0 < Len(val) THEN val[idx0 + 1] ELSE Undef)
        /\ (ret = Undef <=> ~has_next)
        /\ idx = idx0
        /\ Len(higher_order) = len0
        /\ side_effects = <<>>

\* The values successive next() calls produce from position i to the end.
RECURSIVE NextsFrom(_)
NextsFrom(i) ==
    IF ~has_next_at(val, i) THEN <<>>
    ELSE LET r == NextLoop(val, higher_order, callback, i, Undef, <<>>)
         IN  (IF r.ret # Undef THEN <<r.ret>> ELSE <<>>) \o NextsFrom(r.idx)

\* C15: when collect() returns, the position is the length, the stages are
\* those registered before the call, in the same order, and the result is the
\* values the successive next() calls produced, in order, none of them
\* "no value".
C15_CollectKeeps ==
    /\ [](cls = "iter" /\ op = "collect" =>
            /\ idx = Len(val)
            /\ ~has_next
            /\ Len(higher_order) = len0
            /\ collected = NextsFrom(idx0)
            /\ \A k \in 1..Len(collected) : collected[k] # Undef)
    /\ [][(cls = "iter" /\ op' = "collect") =>
            (higher_order' = higher_order /\ callback' = callback)]_vars

C15_Witness ==
    /\ cls = "iter"
    /\ op = "collect"
    /\ idx0 = 1
    /\ len0 = 2
    /\ Len(val) = 2
    /\ Len(collected) = 1
    /\ idx = 2

\* C16: a next() that returns no value leaves has_next() false and a prev()
\* that returns no value leaves has_prev() false, so the assertion
\* "Iterator exhausted abruptly!" never fails.
C16_NoAbruptEnd ==
    cls = "iter" =>
        /\ (op \in {"next", "some", "find"} /\ has_next) => ret # Undef
        /\ (op = "prev" /\ has_prev) => ret # Undef

C16_Witness ==
    /\ cls = "iter"
    /\ op = "next"
    /\ len0 > 0
    /\ idx0 = 0
    /\ idx = 2
    /\ ret = Undef

\* What stage i makes of a value v, by its kind.
StageVal(i, v) ==
    IF higher_order[i] = "_map" THEN CallMap(callback[i], v)
    ELSE IF higher_order[i] = "_filter"
         THEN (IF CallPred(callback[i], v) THEN v ELSE Undef)
         ELSE v

\* The value of raw element x after stages 1..i, Undef once a stage dropped it.
RECURSIVE Upto(_, _)
Upto(i, x) ==
    IF i = 0 THEN x
    ELSE IF Upto(i - 1, x) = Undef THEN Undef
         ELSE StageVal(i, Upto(i - 1, x))

\* What the taps at stages i, i+1, ... push for raw element x.
RECURSIVE TapsOf(_, _)
TapsOf(i, x) ==
    IF i > Len(higher_order) THEN <<>>
    ELSE (IF higher_order[i] = "_tap" /\ Upto(i - 1, x) # Undef
          THEN <<(<<i, Upto(i - 1, x)>>)>> ELSE <<>>) \o TapsOf(i + 1, x)

\* What the taps push for the raw elements at 1-based places j, j+d, ..., k.
RECURSIVE TapsOver(_, _, _)
TapsOver(j, k, d) ==
    IF (d > 0 /\ j > k) \/ (d < 0 /\ j < k) THEN <<>>
    ELSE TapsOf(1, val[j]) \o TapsOver(j + d, k, d)

\* C17: every raw element read goes through the stages in registration
\* order and no stage runs after one that yielded no value: each tap is
\* invoked, in stage order, exactly for the elements that reach it and with
\* the value they have there.
C17_StageOrder ==
    cls = "iter" =>
        /\ op \in {"next", "some", "find", "collect"}
              => side_effects = TapsOver(idx0 + 1, idx, 1)
        /\ op = "prev" => side_effects = TapsOver(idx0, idx + 1, 0 - 1)
        /\ (op \in {"next", "some", "find"} /\ ret # Undef)
              => ret = Upto(Len(higher_order), val[idx])

C17_Witness ==
    /\ cls = "iter"
    /\ op = "collect"
    /\ idx0 = 0
    /\ Len(val) = 2
    /\ higher_order = <<"_filter", "_map", "_tap">>
    /\ Len(side_effects) = 1
    /\ side_effects[1][2] # val[1]
    /\ side_effects[1][2] # val[2]

\* C18: with stages registered, a prev() right after a next() that returned v
\* returns v again and leaves the position on the raw element that gave v, so
\* that collect() would start with v; prev() goes back over the raw elements
\* the stages reject until one passes or has_prev() is false.
C18_PrevSymmetric ==
    (cls = "iter" /\ op = "prev") =>
        /\ (pop = "next" /\ pret # Undef) =>
              /\ ret = pret
              /\ idx = idx0 - 1
              /\ NextsFrom(idx)[1] = pret
        /\ \A j \in (idx + 2)..idx0 : Upto(Len(higher_order), val[j]) = Undef
        /\ ret # Undef => ret = Upto(Len(higher_order), val[idx + 1])
        /\ ret = Undef => ~has_prev

C18_Witness ==
    /\ cls = "iter"
    /\ op = "prev"
    /\ pop = "next"
    /\ pret # Undef
    /\ "_map" \in {higher_order[k] : k \in 1..Len(higher_order)}
    /\ "_filter" \in {higher_order[k] : k \in 1..Len(higher_order)}
    /\ idx0 = 2
    /\ ret = pret
    /\ ret # val[idx0]

OnlyMaps == \A k \in 1..Len(higher_order) : higher_order[k] = "_map"

\* C19: with only map stages registered, a next() called while has_next() is
\* true consumes exactly one raw element and returns what the callbacks made
\* of it, whatever that is.
C19_MapNeverDrops ==
    (cls = "iter" /\ op = "next" /\ OnlyMaps /\ len0 > 0 /\ idx0 < Len(val)) =>
        /\ idx = idx0 + 1
        /\ ret = Upto(Len(higher_order), val[idx0 + 1])

Registering == {"map", "filter", "tap"}

\* C20: map, filter and tap leave the position and the elements alone, keep
\* the stages already registered in place and append exactly one; the
\* position moves forward only in next() (and some, find, collect, which
\* call it), backward only in prev(), and to 0 in reset().
C20_RegisterFrame ==
    [][cls = "iter" =>
        /\ op' \in Registering =>
              /\ idx' = idx
              /\ val' = val
              /\ Len(higher_order') = Len(higher_order) + 1
              /\ SubSeq(higher_order', 1, Len(higher_order)) = higher_order
              /\ Len(callback') = Len(callback) + 1
              /\ SubSeq(callback', 1, Len(callback)) = callback
        /\ idx' > idx => op' \in {"next", "some", "find", "collect"}
        /\ idx' < idx => (op' = "prev" \/ (op' = "reset" /\ idx' = 0))
        /\ val' = val]_vars

C20_Witness ==
    /\ cls = "iter"
    /\ op \in Registering
    /\ idx0 = 1
    /\ idx = 1
    /\ len0 = 2
    /\ Len(higher_order) = 3
    /\ higher_order[1] # higher_order[3]

\* --------------------------------------------------------------- C11
\* C11: for every backing collection and every n >= 0, skip(n) followed by
\* collect() on a fresh cursor returns the collection without its first n
\* elements, in order, and the empty sequence when n is at least the length.
FreshChain(kinds) ==
    /\ op = "collect"
    /\ idx0 = 0
    /\ higher_order = kinds

Min(a, b) == IF a < b THEN a ELSE b

TakeCollect ==
    /\ FreshChain(<<"_take">>) =>
           /\ collected = SubSeq(val, 1, Min(callback[1].n, Len(val)))
           /\ (callback[1].n >= Len(val) => collected = val)
    /\ FreshChain(<<"_take", "_skip">>) =>
           collected = SubSeq(val, callback[2].n + 1, Min(callback[1].n, Len(val)))
    /\ FreshChain(<<"_skip", "_take">>) =>
           collected = SubSeq(val, callback[1].n + 1,
                              Min(callback[1].n + callback[2].n, Len(val)))

UsedUp ==
    \E i \in 1..Len(higher_order) :
        /\ higher_order[i] = "_take"
        /\ callback[i].seen = callback[i].n

AfterQuota ==
    UsedUp =>
        /\ (op' \in {"next", "some"} => ret' = Undef /\ idx' = Len(val))
        /\ (op' = "collect" => collected' = <<>> /\ idx' = Len(val))

Remaining == StCollectLoop(val, higher_order, callback, idx, <<>>, <<>>).out

OnlyFilters == \A i \in 1..Len(higher_order) : higher_order[i] = "_filter"

Passes(x) == \A i \in 1..Len(higher_order) : CallPred(callback[i], x)

EveryStep ==
    op' = "every" =>
        /\ bret' = (\A k \in 1..Len(Remaining) : CallPred(arg', Remaining[k]))
        /\ (Remaining = <<>> => bret')
        /\ (OnlyFilters =>
               bret' = (\A k \in idx + 1..Len(val) :
                            Passes(val[k]) => CallPred(arg', val[k])))
        /\ higher_order' = higher_order
        /\ Len(callback') = Len(callback)
        /\ ((/\ op = "some"
             /\ bret
             /\ arg' = callback[Len(callback)]
             /\ \A k \in idx + 1..Len(val) : CallPred(arg', val[k])) => bret')

C21_InRange ==
    cls = "iter" =>
        /\ 0 <= idx
        /\ idx <= Len(val)
        /\ Len(higher_order) = Len(callback)

\* next() called at the end and prev() called at the start leave idx where
\* it was; the state after such a next(), with stages registered.
C21_Witness ==
    /\ cls = "iter"
    /\ op = "next"
    /\ Len(val) = 2
    /\ idx0 = Len(val)
    /\ idx = Len(val)
    /\ Len(higher_order) = 2
    /\ Len(callback) = 2

====
